---- MODULE Spec2Model ----
(***************************************************************************)
(* A model of the compre-smart backend: an express application over one    *)
(* sqlite3 database handle.  Every route handler is a chain of callbacks;  *)
(* each db.get / db.run / db.all statement runs atomically in the store    *)
(* and may fail, and the callbacks of different requests interleave.       *)
(*                                                                         *)
(* Each subsystem (XP, progress, grades, notes, questions, reflections,    *)
(* files) has its own tables, its own request slots and its own            *)
(* specification; the tables of the other subsystems stay unchanged.       *)
(***************************************************************************)
EXTENDS Integers, Sequences, FiniteSets, TLC

VARIABLES
    \* XP system
    users,          \* table users: username -> [xp, level, streak]
    xpReq,          \* the requests of GET /xp and POST /xp/add, by slot
    xpCalls,        \* the number of XP requests accepted so far
    \* progress
    progress,       \* table progress: a set of rows [rowid, user, subject, value]
    progRowid,      \* the last rowid the progress table gave out
    progReq,        \* the requests of POST /progress, by slot
    progCalls,
    progHist,       \* history: per (user, subject), the values upserted, in order
    \* grades
    grades,         \* table grades: a set of rows, id AUTOINCREMENT
    gradeSeq,       \* the last id the grades table gave out
    gradeReq,       \* the requests of POST /grades, by slot
    gradeCalls,
    gradeDone,      \* history: per answerId, the POST /grades that completed last
    \* notes and comments
    clock,          \* the time new Date() reads
    notes,          \* table notes: a set of rows, id AUTOINCREMENT
    comments,       \* table comments: a set of rows, id AUTOINCREMENT
    noteSeq,        \* the last id the notes table gave out
    commentSeq,     \* the last id the comments table gave out
    noteReq,        \* the requests of the notes routes, by slot
    noteCalls,
    noteDeleted,    \* history: the ids DELETE /notes/:id answered {success: true} for
    \* questions and answers
    questions,      \* table questions: a set of rows, id AUTOINCREMENT
    answers,        \* table answers: a set of rows, id AUTOINCREMENT
    questionSeq,
    answerSeq,
    questionReq,    \* the requests of the questions and answers routes, by slot
    questionCalls,
    questionDeleted, \* history: the ids DELETE /questions/:id answered {success: true} for
    \* files
    files,          \* table files: a set of rows, id AUTOINCREMENT
    fileSeq,
    disk,           \* the stored objects under uploads/, by name
    uploadSeq,      \* the uploads multer has stored; it names each one anew
    fileReq,        \* the requests of POST /upload and DELETE /files/:id, by slot
    fileCalls,
    fileDeletes,    \* history: who deleted which file row and which stored object
    \* reflections
    reflections,    \* table reflections: a set of rows, id AUTOINCREMENT
    reflSeq,
    reflReq,        \* the requests of the reflections routes, by slot
    reflCalls,
    reflOrig,       \* history: every reflection row as it was inserted
    reflLast        \* history: per id, the last of softDelete / restore that ran

xpVars == <<xpReq, xpCalls>>
progVars == <<progress, progRowid, progReq, progCalls, progHist>>

gradeTables == <<grades, gradeSeq>>
gradeVars == <<gradeReq, gradeCalls, gradeDone>>

noteVars == <<notes, comments, noteSeq, commentSeq, noteReq, noteCalls, noteDeleted>>
questionVars == <<questions, answers, questionSeq, answerSeq, questionReq, questionCalls,
                  questionDeleted>>

fileVars == <<files, fileSeq, disk, uploadSeq, fileReq, fileCalls, fileDeletes>>
reflVars == <<reflections, reflSeq, reflReq, reflCalls, reflOrig, reflLast>>

vars == <<users, xpVars, progVars, gradeTables, gradeVars, clock, noteVars, questionVars,
          fileVars, reflVars>>

\* what the routes of one subsystem leave alone
restOfXp == <<progVars, gradeTables, gradeVars, clock, noteVars, questionVars, fileVars,
             reflVars>>
restOfProgress == <<users, xpVars, gradeTables, gradeVars, clock, noteVars, questionVars,
                   fileVars, reflVars>>
restOfGrades == <<users, xpVars, progVars, clock, noteVars, questionVars, fileVars, reflVars>>
restOfNotes == <<users, xpVars, progVars, gradeTables, gradeVars, questionVars, fileVars,
                reflVars>>
restOfQuestions == <<users, xpVars, progVars, gradeVars, clock, noteVars, fileVars, reflVars>>
restOfFiles == <<users, xpVars, progVars, gradeTables, gradeVars, clock, noteVars,
                questionVars, reflVars>>
restOfReflections == <<xpVars, progVars, gradeTables, gradeVars, noteVars, questionVars,
                      fileVars>>

----------------------------------------------------------------------------
(* Bounds of the model *)

\* concurrent requests per subsystem
NumSlots == 2
\* XP requests accepted in one behaviour
MaxXpCalls == 3
\* POST /progress requests accepted in one behaviour
MaxProgressCalls == 3
\* POST /grades requests accepted in one behaviour
MaxGradeCalls == 3
\* requests of the notes routes accepted in one behaviour
MaxNoteCalls == 3
\* requests of the questions and answers routes accepted in one behaviour
MaxQuestionCalls == 3
\* requests of the files routes accepted in one behaviour
MaxFileCalls == 3
\* requests of the reflections routes accepted in one behaviour
MaxReflectionCalls == 3

Slots == 1..NumSlots

\* a new request takes the first slot that holds no request in flight
FreeSlot(req, s) ==
    /\ req[s].pc \in {"idle", "done"}
    /\ \A o \in Slots : o < s => req[o].pc \notin {"idle", "done"}

----------------------------------------------------------------------------
(* Inputs *)

Usernames == {"ana", "bob"}
\* req.query.username / req.body.username absent or empty
NoName == ""
Amounts == {-40, 20, 60, 120}
Subjects == {"Ethics", "Rizal"}
\* a JSON value of a request body: a number, a string, or absent (undefined / null)
JsonNumber(n) == [t |-> "number", num |-> n, str |-> ""]
JsonString(x) == [t |-> "string", num |-> 0, str |-> x]
JsonAbsent == [t |-> "absent", num |-> 0, str |-> ""]
\* ids of req.body and req.params; 0 stands for an absent id
NoId == 0
NoteIds == {1, 2}
FileIds == {1, 2}
ReflectionIds == {1, 2}
\* the bodies of POST /reflections
ReflectionBodies ==
    { [username |-> "ana", subject |-> "Ethics", content |-> "today", mood |-> "happy"],
      [username |-> "bob", subject |-> "Rizal", content |-> "later", mood |-> NoName],
      [username |-> NoName, subject |-> "Ethics", content |-> "today", mood |-> "happy"],
      [username |-> "ana", subject |-> NoName, content |-> "today", mood |-> NoName],
      [username |-> "ana", subject |-> "Ethics", content |-> NoName, mood |-> NoName] }
AnswerIds == {1, 2}
QuestionIds == {1, 2}
\* the isCorrect / feedback / gradedBy of a POST /grades body
GradeBodies ==
    { [questionId |-> 1, isCorrect |-> "true", feedback |-> "well done",
       gradedBy |-> JsonString("teacher1")],
      [questionId |-> 2, isCorrect |-> "false", feedback |-> NoName,
       gradedBy |-> JsonString("teacher2")],
      [questionId |-> 1, isCorrect |-> "false", feedback |-> "redo",
       gradedBy |-> JsonString("teacher1")],
      [questionId |-> 1, isCorrect |-> "absent", feedback |-> NoName,
       gradedBy |-> JsonString("teacher1")],
      [questionId |-> 2, isCorrect |-> "true", feedback |-> NoName, gradedBy |-> JsonAbsent],
      [questionId |-> NoId, isCorrect |-> "true", feedback |-> NoName,
       gradedBy |-> JsonString("teacher1")],
      \* the grader with the numeric id 0
      [questionId |-> 1, isCorrect |-> "true", feedback |-> NoName, gradedBy |-> JsonNumber(0)] }
ProgressValues == {JsonNumber(0), JsonString("2"), JsonAbsent}

----------------------------------------------------------------------------
(* XP system *)

\* the threshold of the leveling loop
LevelStep == 100

\* while (xp >= 100) { xp -= 100; level++; }
RECURSIVE levelLoop(_, _)
levelLoop(xp, level) ==
    IF xp >= LevelStep
    THEN levelLoop(xp - LevelStep, level + 1)
    ELSE [xp |-> xp, level |-> level]

\* the position of one addXP(username, amount) promise
\*   "get"      db.get queued
\*   "insert"   the user was absent: INSERT queued
\*   "update"   the user was read: UPDATE queued with the computed xp, level
\*   "resolved" / "rejected"
addXPStart(username, amount) ==
    [pc |-> "get", username |-> username, amount |-> amount, xp |-> 0, level |-> 0]

NoCall == [pc |-> "none", username |-> NoName, amount |-> 0, xp |-> 0, level |-> 0]

\* the callback of db.get: the call after the row (or no row) was read
addXPAfterGet(c, us) ==
    IF c.username \notin DOMAIN us
    THEN [c EXCEPT !.pc = "insert"]
    ELSE LET r == levelLoop(us[c.username].xp + c.amount, us[c.username].level)
         IN  [c EXCEPT !.pc = "update", !.xp = r.xp, !.level = r.level]

\* INSERT INTO users (username, xp, level, streak) VALUES (?, amount, 1, 0);
\* username is UNIQUE: the statement fails when the row exists by now
addXPInsertOk(c, us) == c.username \notin DOMAIN us

addXPInsertRow(c) == [xp |-> c.amount, level |-> 1, streak |-> 0]

addXPAfterInsert(c) == [c EXCEPT !.pc = "resolved", !.xp = c.amount, !.level = 1]

\* UPDATE users SET xp = ?, level = ? WHERE username = ?
addXPUpdateRow(c, row) == [row EXCEPT !.xp = c.xp, !.level = c.level]

addXPReject(c) == [c EXCEPT !.pc = "rejected"]

\* one whole addXP call that nothing interleaves with and no statement of
\* which fails: the users table after it
addXPAlone(us, username, amount) ==
    LET c == addXPAfterGet(addXPStart(username, amount), us)
    IN  IF c.pc = "insert"
        THEN [u \in DOMAIN us \cup {username} |->
                 IF u = username THEN addXPInsertRow(c) ELSE us[u]]
        ELSE [us EXCEPT ![username] = addXPUpdateRow(c, us[username])]

\* a request slot of the XP routes
IdleXp == [route |-> "none", pc |-> "idle", status |-> 0, call |-> NoCall]

\* POST /xp/add: no validation; addXP(username, amount) is awaited, also
\* when req.body.username is missing.  A missing username is modelled by the
\* empty one, which sqlite binds as the text '': the SELECT finds no row of
\* it until some call inserted one.
XpAddCall(s) ==
    /\ FreeSlot(xpReq, s)
    /\ xpCalls < MaxXpCalls
    /\ \E u \in Usernames \cup {NoName}, a \in Amounts :
          xpReq' = [xpReq EXCEPT ![s] =
                       [route |-> "xp/add", pc |-> "addXP", status |-> 0,
                        call |-> addXPStart(u, a)]]
    /\ xpCalls' = xpCalls + 1
    /\ UNCHANGED users
    /\ UNCHANGED restOfXp

\* db.get("SELECT * FROM users WHERE username = ?") of addXP completes
XpAddGet(s) ==
    /\ xpReq[s].pc = "addXP"
    /\ xpReq[s].call.pc = "get"
    /\ \E ok \in BOOLEAN :
          xpReq' = [xpReq EXCEPT ![s].call =
                       IF ok THEN addXPAfterGet(@, users) ELSE addXPReject(@)]
    /\ UNCHANGED <<users, xpCalls>>
    /\ UNCHANGED restOfXp

\* the INSERT of addXP completes
XpAddInsert(s) ==
    /\ xpReq[s].pc = "addXP"
    /\ xpReq[s].call.pc = "insert"
    /\ LET c == xpReq[s].call IN
       \E ok \in BOOLEAN :
          IF ok /\ addXPInsertOk(c, users)
          THEN /\ users' = [u \in DOMAIN users \cup {c.username} |->
                               IF u = c.username THEN addXPInsertRow(c) ELSE users[u]]
               /\ xpReq' = [xpReq EXCEPT ![s].call = addXPAfterInsert(c)]
          ELSE /\ xpReq' = [xpReq EXCEPT ![s].call = addXPReject(c)]
               /\ UNCHANGED users
    /\ UNCHANGED xpCalls
    /\ UNCHANGED restOfXp

\* the UPDATE of addXP completes
XpAddUpdate(s) ==
    /\ xpReq[s].pc = "addXP"
    /\ xpReq[s].call.pc = "update"
    /\ LET c == xpReq[s].call IN
       \E ok \in BOOLEAN :
          IF ok
          THEN /\ users' = [users EXCEPT ![c.username] = addXPUpdateRow(c, @)]
               /\ xpReq' = [xpReq EXCEPT ![s].call.pc = "resolved"]
          ELSE /\ xpReq' = [xpReq EXCEPT ![s].call = addXPReject(c)]
               /\ UNCHANGED users
    /\ UNCHANGED xpCalls
    /\ UNCHANGED restOfXp

\* try { res.json(result) } catch (e) { res.status(500).json(...) }
XpAddRespond(s) ==
    /\ xpReq[s].pc = "addXP"
    /\ xpReq[s].call.pc \in {"resolved", "rejected"}
    /\ xpReq' = [xpReq EXCEPT ![s].pc = "done",
                              ![s].status = IF xpReq[s].call.pc = "resolved" THEN 200 ELSE 500]
    /\ UNCHANGED <<users, xpCalls>>
    /\ UNCHANGED restOfXp

\* GET /xp: 400 without a username, else db.get is queued
XpGetCall(s) ==
    /\ FreeSlot(xpReq, s)
    /\ xpCalls < MaxXpCalls
    /\ \E u \in Usernames \cup {NoName} :
          xpReq' = [xpReq EXCEPT ![s] =
                       IF u = NoName
                       THEN [route |-> "xp", pc |-> "done", status |-> 400, call |-> NoCall]
                       ELSE [route |-> "xp", pc |-> "get", status |-> 0,
                             call |-> [NoCall EXCEPT !.username = u]]]
    /\ xpCalls' = xpCalls + 1
    /\ UNCHANGED users
    /\ UNCHANGED restOfXp

\* the db.get of GET /xp completes: 500, the row, or the INSERT is queued
XpGetRead(s) ==
    /\ xpReq[s].pc = "get"
    /\ LET r == xpReq[s]
           u == xpReq[s].call.username
       IN  \E ok \in BOOLEAN :
             xpReq' = [xpReq EXCEPT ![s] =
                          IF ~ok THEN [r EXCEPT !.pc = "done", !.status = 500]
                          ELSE IF u \in DOMAIN users
                          THEN [r EXCEPT !.pc = "done", !.status = 200,
                                         !.call.xp = users[u].xp,
                                         !.call.level = users[u].level]
                          ELSE [r EXCEPT !.pc = "create"]]
    /\ UNCHANGED <<users, xpCalls>>
    /\ UNCHANGED restOfXp

\* INSERT INTO users (username, password, xp, level, last_login) VALUES (?, "", 0, 1, ?);
\* the callback ignores its error and answers xp 0, level 1
XpGetCreate(s) ==
    /\ xpReq[s].pc = "create"
    /\ LET u == xpReq[s].call.username IN
       \E ok \in BOOLEAN :
          IF ok /\ u \notin DOMAIN users
          THEN users' = [v \in DOMAIN users \cup {u} |->
                            IF v = u THEN [xp |-> 0, level |-> 1, streak |-> 0] ELSE users[v]]
          ELSE UNCHANGED users
    /\ xpReq' = [xpReq EXCEPT ![s].pc = "done", ![s].status = 200,
                              ![s].call.xp = 0, ![s].call.level = 1]
    /\ UNCHANGED xpCalls
    /\ UNCHANGED restOfXp

----------------------------------------------------------------------------
(* Progress: POST /progress over a table with PRIMARY KEY (user, subject) *)

\* Number(value) of a JSON number or a numeric string
Number(v) ==
    IF v.t = "number" THEN v.num
    ELSE CASE v.str = "" -> 0
           [] v.str = "0" -> 0
           [] v.str = "1" -> 1
           [] v.str = "2" -> 2

\* value == null
IsNullish(v) == v.t = "absent"

\* !x of a string: absent and the empty string are falsy
Missing(x) == x = NoName

\* !v of a JSON value: undefined, null, the number 0 and the empty string
IsFalsy(v) ==
    \/ v.t = "absent"
    \/ v.t = "number" /\ v.num = 0
    \/ v.t = "string" /\ v.str = ""

progressRows(tbl, user, subject) ==
    {r \in tbl : r.user = user /\ r.subject = subject}

\* a plain INSERT into a table without the primary key: a second row
progressInsertAlways(tbl, rowid, user, subject, value) ==
    tbl \cup {[rowid |-> rowid, user |-> user, subject |-> subject, value |-> value]}

\* INSERT INTO progress (user, subject, value) VALUES (?,?,?)
\*   ON CONFLICT(user, subject) DO UPDATE SET value = excluded.value
\* the table after the statement, given the rowid a new row would get
progressUpsert(tbl, rowid, user, subject, value) ==
    IF progressRows(tbl, user, subject) = {}
    THEN tbl \cup {[rowid |-> rowid, user |-> user, subject |-> subject, value |-> value]}
    ELSE {IF r.user = user /\ r.subject = subject THEN [r EXCEPT !.value = value] ELSE r :
             r \in tbl}

IdleProgress ==
    [pc |-> "idle", status |-> 0, user |-> NoName, subject |-> NoName, value |-> JsonAbsent]

\* POST /progress: 400 when user, subject or value is missing, else the
\* upsert is queued with Number(value)
ProgressCall(s) ==
    /\ FreeSlot(progReq, s)
    /\ progCalls < MaxProgressCalls
    /\ \E u \in Usernames \cup {NoName}, sb \in Subjects \cup {NoName}, v \in ProgressValues :
          progReq' = [progReq EXCEPT ![s] =
                         IF Missing(u) \/ Missing(sb) \/ IsNullish(v)
                         THEN [IdleProgress EXCEPT !.pc = "done", !.status = 400]
                         ELSE [pc |-> "run", status |-> 0, user |-> u, subject |-> sb,
                               value |-> v]]
    /\ progCalls' = progCalls + 1
    /\ UNCHANGED <<progress, progRowid, progHist>>
    /\ UNCHANGED restOfProgress

\* the upsert completes; its callback answers 500 or {success: true}
ProgressRun(s) ==
    /\ progReq[s].pc = "run"
    /\ LET r == progReq[s] IN
       \E ok \in BOOLEAN :
          IF ok
          THEN /\ progress' = progressUpsert(progress, progRowid + 1, r.user, r.subject,
                                             Number(r.value))
               /\ progRowid' = IF progressRows(progress, r.user, r.subject) = {}
                               THEN progRowid + 1 ELSE progRowid
               /\ progHist' = [progHist EXCEPT ![<<r.user, r.subject>>] = Append(@, r.value)]
               /\ progReq' = [progReq EXCEPT ![s] = [IdleProgress EXCEPT !.pc = "done", !.status = 200]]
          ELSE /\ progReq' = [progReq EXCEPT ![s] = [IdleProgress EXCEPT !.pc = "done", !.status = 500]]
               /\ UNCHANGED <<progress, progRowid, progHist>>
    /\ UNCHANGED progCalls
    /\ UNCHANGED restOfProgress

----------------------------------------------------------------------------
(* Grades: POST /grades replaces the grade of an answer by DELETE, then INSERT *)

\* isCorrect ? 1 : 0
isCorrectColumn(v) == IF v = "true" THEN 1 ELSE 0

gradesOf(tbl, answerId) == {g \in tbl : g.answerId = answerId}

\* a handler that does not delete the prior grade
gradesKeepAll(tbl, answerId) == tbl

\* DELETE FROM grades WHERE answerId = ?
gradesDelete(tbl, answerId) == tbl \ gradesOf(tbl, answerId)

\* INSERT INTO grades (answerId, questionId, isCorrect, feedback, gradedBy, createdAt)
\*   VALUES (answerId, questionId, isCorrect ? 1 : 0, feedback || "", gradedBy, createdAt)
gradeRow(id, r) ==
    [id |-> id, answerId |-> r.answerId, questionId |-> r.body.questionId,
     isCorrect |-> isCorrectColumn(r.body.isCorrect), feedback |-> r.body.feedback,
     gradedBy |-> r.body.gradedBy]

NoGradeBody ==
    [questionId |-> NoId, isCorrect |-> "absent", feedback |-> NoName, gradedBy |-> JsonAbsent]

IdleGrade ==
    [pc |-> "idle", status |-> 0, answerId |-> NoId, body |-> NoGradeBody, alone |-> FALSE]

NoGradeDone == [calls |-> 0, ok |-> FALSE, alone |-> FALSE, body |-> NoGradeBody]

gradeInFlight(r, answerId) == r.pc \in {"delete", "insert"} /\ r.answerId = answerId

\* !answerId || !questionId || isCorrect == null || !gradedBy
gradeMissingFields(answerId, body) ==
    \/ answerId = NoId
    \/ body.questionId = NoId
    \/ body.isCorrect = "absent"
    \/ IsFalsy(body.gradedBy)

gradeAnswered(status) == [IdleGrade EXCEPT !.pc = "done", !.status = status]

\* res.status(400).json({error: "Missing fields"}); the slot keeps what was sent
gradeRefused(answerId, body) ==
    [IdleGrade EXCEPT !.pc = "done", !.status = 400, !.answerId = answerId, !.body = body]

\* POST /grades: 400 on a missing field, else the DELETE is queued
GradeCall(s) ==
    /\ FreeSlot(gradeReq, s)
    /\ gradeCalls + questionCalls < MaxGradeCalls
    /\ \E a \in AnswerIds \cup {NoId}, b \in GradeBodies :
          IF gradeMissingFields(a, b)
          THEN gradeReq' = [gradeReq EXCEPT ![s] = gradeRefused(a, b)]
          ELSE gradeReq' =
                 [t \in Slots |->
                    IF t = s
                    THEN [pc |-> "delete", status |-> 0, answerId |-> a, body |-> b,
                          alone |-> \A o \in Slots \ {s} : ~gradeInFlight(gradeReq[o], a)]
                    ELSE IF gradeInFlight(gradeReq[t], a)
                    THEN [gradeReq[t] EXCEPT !.alone = FALSE]
                    ELSE gradeReq[t]]
    /\ gradeCalls' = gradeCalls + 1
    /\ UNCHANGED <<gradeTables, gradeDone>>
    /\ UNCHANGED restOfGrades

\* the DELETE completes: 500, or the INSERT is queued
GradeDelete(s) ==
    /\ gradeReq[s].pc = "delete"
    /\ LET r == gradeReq[s] IN
       \E ok \in BOOLEAN :
          IF ok
          THEN /\ grades' = gradesDelete(grades, r.answerId)
               /\ gradeReq' = [gradeReq EXCEPT ![s].pc = "insert"]
               /\ UNCHANGED gradeDone
          ELSE /\ gradeReq' = [gradeReq EXCEPT ![s] = gradeAnswered(500)]
               /\ gradeDone' = [gradeDone EXCEPT ![r.answerId].ok = FALSE]
               /\ UNCHANGED grades
    /\ UNCHANGED <<gradeSeq, gradeCalls>>
    /\ UNCHANGED restOfGrades

\* the INSERT completes: 500, or the created grade with this.lastID
GradeInsert(s) ==
    /\ gradeReq[s].pc = "insert"
    /\ LET r == gradeReq[s] IN
       \E ok \in BOOLEAN :
          IF ok
          THEN /\ grades' = grades \cup {gradeRow(gradeSeq + 1, r)}
               /\ gradeSeq' = gradeSeq + 1
               /\ gradeReq' = [gradeReq EXCEPT ![s] = gradeAnswered(200)]
               /\ gradeDone' = [gradeDone EXCEPT ![r.answerId] =
                                   [calls |-> @.calls + 1, ok |-> TRUE, alone |-> r.alone,
                                    body |-> r.body]]
          ELSE /\ gradeReq' = [gradeReq EXCEPT ![s] = gradeAnswered(500)]
               /\ gradeDone' = [gradeDone EXCEPT ![r.answerId].ok = FALSE]
               /\ UNCHANGED <<grades, gradeSeq>>
    /\ UNCHANGED gradeCalls
    /\ UNCHANGED restOfGrades

----------------------------------------------------------------------------
(* Notes and comments.  req.params.id is the text of an id; the INTEGER    *)
(* columns id and noteId compare and store it as that integer.             *)

\* new Date().toISOString(): the clock may have advanced since the last reading
Readings == {clock, clock + 1}

commentsOf(tbl, noteId) == {c \in tbl : c.noteId = noteId}

\* DELETE FROM notes WHERE id = ?
notesDelete(tbl, id) == {n \in tbl : n.id # id}

\* DELETE FROM comments WHERE noteId = ?
commentsDelete(tbl, noteId) == tbl \ commentsOf(tbl, noteId)

\* GET /notes?subject= with nothing interleaved and no statement failing:
\* the notes of the subject, each with the comments of its id
listNotesAlone(subject) ==
    {[id |-> n.id, createdAt |-> n.createdAt, comments |-> commentsOf(comments, n.id)] :
        n \in {m \in notes : m.subject = subject}}

\* rows, waiting, out and sent belong to GET /notes: the rows of its SELECT,
\* the ids the comment queries of which are pending, the array notes, and
\* the number of responses sent
IdleNote ==
    [route |-> "none", pc |-> "idle", status |-> 0, id |-> NoId, subject |-> NoName,
     isPublic |-> 0, createdAt |-> 0, rows |-> {}, waiting |-> {}, out |-> << >>,
     sent |-> 0]

\* POST /notes: 400 unless subject, author and content are given, else the
\* INSERT is queued with isPublic ? 1 : 0 and the time read now
NoteCreateCall(s) ==
    /\ FreeSlot(noteReq, s)
    /\ noteCalls < MaxNoteCalls
    /\ \E sb \in Subjects \cup {NoName}, author \in {"ana", NoName}, content \in {"hi", NoName},
          pub \in BOOLEAN, at \in Readings :
          IF Missing(sb) \/ Missing(author) \/ Missing(content)
          THEN /\ noteReq' = [noteReq EXCEPT ![s] =
                                 [IdleNote EXCEPT !.route = "POST /notes", !.pc = "done",
                                                  !.status = 400]]
               /\ UNCHANGED clock
          ELSE /\ noteReq' = [noteReq EXCEPT ![s] =
                                 [IdleNote EXCEPT !.route = "POST /notes", !.pc = "insert",
                                                  !.subject = sb,
                                                  !.isPublic = IF pub THEN 1 ELSE 0,
                                                  !.createdAt = at]]
               /\ clock' = at
    /\ noteCalls' = noteCalls + 1
    /\ UNCHANGED <<notes, comments, noteSeq, commentSeq, noteDeleted>>
    /\ UNCHANGED restOfNotes

\* a request the response of which was sent and that has nothing queued
noteAnswered(r, status) == [IdleNote EXCEPT !.route = r.route, !.pc = "done", !.status = status]

\* the INSERT INTO notes completes: 500, or the created note with this.lastID
NoteCreateRun(s) ==
    /\ noteReq[s].route = "POST /notes"
    /\ noteReq[s].pc = "insert"
    /\ LET r == noteReq[s] IN
       \E ok \in BOOLEAN :
          IF ok
          THEN /\ notes' = notes \cup {[id |-> noteSeq + 1, subject |-> r.subject,
                                        isPublic |-> r.isPublic, createdAt |-> r.createdAt]}
               /\ noteSeq' = noteSeq + 1
               /\ noteReq' = [noteReq EXCEPT ![s] = noteAnswered(r, 200)]
          ELSE /\ noteReq' = [noteReq EXCEPT ![s] = noteAnswered(r, 500)]
               /\ UNCHANGED <<notes, noteSeq>>
    /\ UNCHANGED <<clock, comments, commentSeq, noteCalls, noteDeleted>>
    /\ UNCHANGED restOfNotes

\* DELETE /notes/:id: the DELETE of the note is queued
NoteDeleteCall(s) ==
    /\ FreeSlot(noteReq, s)
    /\ noteCalls < MaxNoteCalls
    /\ \E id \in NoteIds :
          noteReq' = [noteReq EXCEPT ![s] =
                         [IdleNote EXCEPT !.route = "DELETE /notes", !.pc = "delete",
                                          !.id = id]]
    /\ noteCalls' = noteCalls + 1
    /\ UNCHANGED <<clock, notes, comments, noteSeq, commentSeq, noteDeleted>>
    /\ UNCHANGED restOfNotes

\* the DELETE of the note completes: 500, or the DELETE of its comments is
\* queued without a callback and {success: true} is sent at once
NoteDeleteRun(s) ==
    /\ noteReq[s].pc = "delete"
    /\ LET r == noteReq[s] IN
       \E ok \in BOOLEAN :
          IF ok
          THEN /\ notes' = notesDelete(notes, r.id)
               /\ noteReq' = [noteReq EXCEPT ![s].pc = "cascade", ![s].status = 200]
               /\ noteDeleted' = noteDeleted \cup {r.id}
          ELSE /\ noteReq' = [noteReq EXCEPT ![s] = noteAnswered(r, 500)]
               /\ UNCHANGED <<notes, noteDeleted>>
    /\ UNCHANGED <<clock, comments, noteSeq, commentSeq, noteCalls>>
    /\ UNCHANGED restOfNotes

\* the DELETE of the comments completes; nothing looks at its error
NoteDeleteCascade(s) ==
    /\ noteReq[s].pc = "cascade"
    /\ \E ok \in BOOLEAN :
          IF ok
          THEN comments' = commentsDelete(comments, noteReq[s].id)
          ELSE UNCHANGED comments
    /\ noteReq' = [noteReq EXCEPT ![s] = noteAnswered(@, 200)]
    /\ UNCHANGED <<clock, notes, noteSeq, commentSeq, noteCalls, noteDeleted>>
    /\ UNCHANGED restOfNotes

\* POST /notes/:id/comments: 400 unless author and content are given, else
\* the INSERT is queued; the note is not looked up
CommentCreateCall(s) ==
    /\ FreeSlot(noteReq, s)
    /\ noteCalls < MaxNoteCalls
    /\ \E id \in NoteIds, author \in {"bob", NoName}, content \in {"nice", NoName},
          at \in Readings :
          IF Missing(author) \/ Missing(content)
          THEN /\ noteReq' = [noteReq EXCEPT ![s] =
                                 [IdleNote EXCEPT !.route = "POST /comments", !.pc = "done",
                                                  !.status = 400]]
               /\ UNCHANGED clock
          ELSE /\ noteReq' = [noteReq EXCEPT ![s] =
                                 [IdleNote EXCEPT !.route = "POST /comments", !.pc = "insert",
                                                  !.id = id, !.createdAt = at]]
               /\ clock' = at
    /\ noteCalls' = noteCalls + 1
    /\ UNCHANGED <<notes, comments, noteSeq, commentSeq, noteDeleted>>
    /\ UNCHANGED restOfNotes

\* the INSERT INTO comments completes: 500, or the created comment
CommentCreateRun(s) ==
    /\ noteReq[s].route = "POST /comments"
    /\ noteReq[s].pc = "insert"
    /\ LET r == noteReq[s] IN
       \E ok \in BOOLEAN :
          IF ok
          THEN /\ comments' = comments \cup {[id |-> commentSeq + 1, noteId |-> r.id,
                                              createdAt |-> r.createdAt]}
               /\ commentSeq' = commentSeq + 1
               /\ noteReq' = [noteReq EXCEPT ![s] = noteAnswered(r, 200)]
          ELSE /\ noteReq' = [noteReq EXCEPT ![s] = noteAnswered(r, 500)]
               /\ UNCHANGED <<comments, commentSeq>>
    /\ UNCHANGED <<clock, notes, noteSeq, noteCalls, noteDeleted>>
    /\ UNCHANGED restOfNotes

\* notes.sort((a, b) => new Date(b.createdAt) - new Date(a.createdAt)):
\* Array.prototype.sort is stable; e goes behind the entries that are not older
sortInsert(sorted, e) ==
    LET k == Cardinality({i \in 1..Len(sorted) : sorted[i].createdAt >= e.createdAt})
    IN  SubSeq(sorted, 1, k) \o <<e>> \o SubSeq(sorted, k + 1, Len(sorted))

RECURSIVE sortNotes(_)
sortNotes(q) ==
    IF q = << >> THEN << >>
    ELSE sortInsert(sortNotes(SubSeq(q, 1, Len(q) - 1)), q[Len(q)])

\* SELECT * FROM notes WHERE subject = ?
notesOf(tbl, subject) == {n \in tbl : n.subject = subject}

\* the entry the callback of a note's comment query pushes: comments is
\* crows || [], stored is what the comments table held for the note then
noteEntry(row, ok, tbl) ==
    [id |-> row.id, createdAt |-> row.createdAt,
     comments |-> IF ok THEN commentsOf(tbl, row.id) ELSE {},
     stored |-> commentsOf(tbl, row.id)]

\* GET /notes: [] without a subject, else the SELECT of the notes is queued
NotesListCall(s) ==
    /\ FreeSlot(noteReq, s)
    /\ noteCalls < MaxNoteCalls
    /\ \E sb \in Subjects \cup {NoName} :
          noteReq' = [noteReq EXCEPT ![s] =
                         IF Missing(sb)
                         THEN [IdleNote EXCEPT !.route = "GET /notes", !.pc = "done",
                                               !.status = 200, !.sent = 1]
                         ELSE [IdleNote EXCEPT !.route = "GET /notes", !.pc = "select",
                                               !.subject = sb]]
    /\ noteCalls' = noteCalls + 1
    /\ UNCHANGED <<clock, notes, comments, noteSeq, commentSeq, noteDeleted>>
    /\ UNCHANGED restOfNotes

\* the SELECT of the notes completes: 500, [] when there are no rows, else
\* one comment query per row is queued and pending = rows.length
NotesListSelect(s) ==
    /\ noteReq[s].pc = "select"
    /\ LET r == noteReq[s]
           rows == notesOf(notes, r.subject)
       IN  \E ok \in BOOLEAN :
             noteReq' = [noteReq EXCEPT ![s] =
                            IF ~ok
                            THEN [r EXCEPT !.pc = "done", !.status = 500, !.sent = 1]
                            ELSE IF rows = {}
                            THEN [r EXCEPT !.pc = "done", !.status = 200, !.sent = 1]
                            ELSE [r EXCEPT !.pc = "comments", !.rows = rows,
                                           !.waiting = {n.id : n \in rows}]]
    /\ UNCHANGED <<clock, notes, comments, noteSeq, commentSeq, noteCalls, noteDeleted>>
    /\ UNCHANGED restOfNotes

\* the comment query of one row completes, in any order: its entry is
\* pushed, with no comments when the query failed; pending--; the last one
\* sorts the entries and sends them
NotesListComments(s) ==
    /\ noteReq[s].pc = "comments"
    /\ LET r == noteReq[s] IN
       \E row \in r.rows, ok \in BOOLEAN :
          /\ row.id \in r.waiting
          /\ LET out == Append(r.out, noteEntry(row, ok, comments))
                 waiting == r.waiting \ {row.id}
             IN  noteReq' = [noteReq EXCEPT ![s] =
                                IF waiting = {}
                                THEN [r EXCEPT !.pc = "done", !.status = 200,
                                               !.sent = @ + 1, !.waiting = waiting,
                                               !.out = sortNotes(out)]
                                ELSE [r EXCEPT !.waiting = waiting, !.out = out]]
    /\ UNCHANGED <<clock, notes, comments, noteSeq, commentSeq, noteCalls, noteDeleted>>
    /\ UNCHANGED restOfNotes

----------------------------------------------------------------------------
(* Questions and answers *)

answersOf(tbl, questionId) == {a \in tbl : a.questionId = questionId}

gradesOfQuestion(tbl, questionId) == {g \in tbl : g.questionId = questionId}

IdleQuestion ==
    [route |-> "none", pc |-> "idle", status |-> 0, id |-> NoId, subject |-> NoName,
     answers |-> FALSE, grades |-> FALSE]

\* POST /questions: 400 unless subject, text and createdBy are given
QuestionCreateCall(s) ==
    /\ FreeSlot(questionReq, s)
    /\ questionCalls + gradeCalls < MaxQuestionCalls
    /\ \E sb \in Subjects \cup {NoName}, text \in {"why?", NoName}, by \in {"ana", NoName} :
          questionReq' = [questionReq EXCEPT ![s] =
                             IF Missing(sb) \/ Missing(text) \/ Missing(by)
                             THEN [IdleQuestion EXCEPT !.route = "POST /questions",
                                                       !.pc = "done", !.status = 400]
                             ELSE [IdleQuestion EXCEPT !.route = "POST /questions",
                                                       !.pc = "insert", !.subject = sb]]
    /\ questionCalls' = questionCalls + 1
    /\ UNCHANGED <<questions, answers, questionSeq, answerSeq, questionDeleted>>
    /\ UNCHANGED <<restOfQuestions, gradeTables>>

\* the INSERT INTO questions completes
QuestionCreateRun(s) ==
    /\ questionReq[s].route = "POST /questions"
    /\ questionReq[s].pc = "insert"
    /\ \E ok \in BOOLEAN :
          IF ok
          THEN /\ questions' = questions \cup {[id |-> questionSeq + 1,
                                                subject |-> questionReq[s].subject]}
               /\ questionSeq' = questionSeq + 1
               /\ questionReq' = [questionReq EXCEPT ![s].pc = "done", ![s].status = 200,
                                                     ![s].id = questionSeq + 1]
          ELSE /\ questionReq' = [questionReq EXCEPT ![s].pc = "done", ![s].status = 500]
               /\ UNCHANGED <<questions, questionSeq>>
    /\ UNCHANGED <<answers, answerSeq, questionCalls, questionDeleted>>
    /\ UNCHANGED <<restOfQuestions, gradeTables>>

\* POST /answers: 400 unless questionId, answerText and answeredBy are given;
\* the question is not looked up
AnswerCreateCall(s) ==
    /\ FreeSlot(questionReq, s)
    /\ questionCalls + gradeCalls < MaxQuestionCalls
    /\ \E q \in QuestionIds \cup {NoId}, text \in {"because", NoName}, by \in {"bob", NoName} :
          questionReq' = [questionReq EXCEPT ![s] =
                             IF q = NoId \/ Missing(text) \/ Missing(by)
                             THEN [IdleQuestion EXCEPT !.route = "POST /answers",
                                                       !.pc = "done", !.status = 400]
                             ELSE [IdleQuestion EXCEPT !.route = "POST /answers",
                                                       !.pc = "insert", !.id = q]]
    /\ questionCalls' = questionCalls + 1
    /\ UNCHANGED <<questions, answers, questionSeq, answerSeq, questionDeleted>>
    /\ UNCHANGED <<restOfQuestions, gradeTables>>

\* the INSERT INTO answers completes
AnswerCreateRun(s) ==
    /\ questionReq[s].route = "POST /answers"
    /\ questionReq[s].pc = "insert"
    /\ \E ok \in BOOLEAN :
          IF ok
          THEN /\ answers' = answers \cup {[id |-> answerSeq + 1,
                                            questionId |-> questionReq[s].id]}
               /\ answerSeq' = answerSeq + 1
               /\ questionReq' = [questionReq EXCEPT ![s].pc = "done", ![s].status = 200]
          ELSE /\ questionReq' = [questionReq EXCEPT ![s].pc = "done", ![s].status = 500]
               /\ UNCHANGED <<answers, answerSeq>>
    /\ UNCHANGED <<questions, questionSeq, questionCalls, questionDeleted>>
    /\ UNCHANGED <<restOfQuestions, gradeTables>>

\* DELETE /questions/:id: the DELETE of the question is queued
QuestionDeleteCall(s) ==
    /\ FreeSlot(questionReq, s)
    /\ questionCalls + gradeCalls < MaxQuestionCalls
    /\ \E q \in QuestionIds :
          questionReq' = [questionReq EXCEPT ![s] =
                             [IdleQuestion EXCEPT !.route = "DELETE /questions",
                                                  !.pc = "delete", !.id = q]]
    /\ questionCalls' = questionCalls + 1
    /\ UNCHANGED <<questions, answers, questionSeq, answerSeq, questionDeleted>>
    /\ UNCHANGED <<restOfQuestions, gradeTables>>

\* the DELETE of the question completes: 500, or the DELETEs of its answers
\* and of its grades are queued without callbacks and {success: true} is sent
QuestionDeleteRun(s) ==
    /\ questionReq[s].pc = "delete"
    /\ \E ok \in BOOLEAN :
          IF ok
          THEN /\ questions' = {q \in questions : q.id # questionReq[s].id}
               /\ questionReq' = [questionReq EXCEPT ![s].pc = "cascade", ![s].status = 200,
                                                     ![s].answers = TRUE, ![s].grades = TRUE]
               /\ questionDeleted' = questionDeleted \cup {questionReq[s].id}
          ELSE /\ questionReq' = [questionReq EXCEPT ![s].pc = "done", ![s].status = 500]
               /\ UNCHANGED <<questions, questionDeleted>>
    /\ UNCHANGED <<answers, questionSeq, answerSeq, questionCalls>>
    /\ UNCHANGED <<restOfQuestions, gradeTables>>

\* a request whose queued statements have all completed is done
questionCascaded(r) ==
    IF r.pc = "cascade" /\ ~r.answers /\ ~r.grades THEN [r EXCEPT !.pc = "done"] ELSE r

\* DELETE FROM answers WHERE questionId = ? completes; nothing looks at its error
QuestionDeleteAnswers(s) ==
    /\ questionReq[s].pc = "cascade"
    /\ questionReq[s].answers
    /\ \E ok \in BOOLEAN :
          IF ok
          THEN answers' = answers \ answersOf(answers, questionReq[s].id)
          ELSE UNCHANGED answers
    /\ questionReq' = [questionReq EXCEPT ![s] = questionCascaded([@ EXCEPT !.answers = FALSE])]
    /\ UNCHANGED <<questions, questionSeq, answerSeq, questionCalls, questionDeleted>>
    /\ UNCHANGED <<restOfQuestions, gradeTables>>

\* DELETE FROM grades WHERE questionId = ? completes; nothing looks at its error
QuestionDeleteGrades(s) ==
    /\ questionReq[s].pc = "cascade"
    /\ questionReq[s].grades
    /\ \E ok \in BOOLEAN :
          IF ok
          THEN grades' = grades \ gradesOfQuestion(grades, questionReq[s].id)
          ELSE UNCHANGED grades
    /\ questionReq' = [questionReq EXCEPT ![s] = questionCascaded([@ EXCEPT !.grades = FALSE])]
    /\ UNCHANGED <<questions, answers, questionSeq, answerSeq, questionCalls, questionDeleted>>
    /\ UNCHANGED <<restOfQuestions, gradeSeq>>

----------------------------------------------------------------------------
(* Files.  multer stores an upload under a name of its own before the      *)
(* handler runs; the row's filePath is "/uploads/" and that name.          *)

\* a handler without the ownership check
fileAnyoneMayDelete(uploader, user) == TRUE

\* not (row.uploader !== user && user !== "admin")
fileMayDelete(uploader, user) == ~(uploader # user /\ user # "admin")

IdleFile ==
    [route |-> "none", pc |-> "idle", status |-> 0, id |-> NoId, user |-> NoName,
     found |-> FALSE, uploader |-> NoName, object |-> 0]

\* POST /upload: 400 without a file, else the INSERT is queued with
\* uploader || "Unknown"
UploadCall(s) ==
    /\ FreeSlot(fileReq, s)
    /\ fileCalls < MaxFileCalls
    /\ \E hasFile \in BOOLEAN, uploader \in {"ana", "bob", NoName} :
          IF ~hasFile
          THEN /\ fileReq' = [fileReq EXCEPT ![s] =
                                 [IdleFile EXCEPT !.route = "POST /upload", !.pc = "done",
                                                  !.status = 400]]
               /\ UNCHANGED <<disk, uploadSeq>>
          ELSE /\ fileReq' = [fileReq EXCEPT ![s] =
                                 [IdleFile EXCEPT !.route = "POST /upload", !.pc = "insert",
                                     !.uploader = IF Missing(uploader) THEN "Unknown" ELSE uploader,
                                     !.object = uploadSeq + 1]]
               /\ disk' = disk \cup {uploadSeq + 1}
               /\ uploadSeq' = uploadSeq + 1
    /\ fileCalls' = fileCalls + 1
    /\ UNCHANGED <<files, fileSeq, fileDeletes>>
    /\ UNCHANGED restOfFiles

\* the INSERT INTO files completes: 500, or the created file
UploadRun(s) ==
    /\ fileReq[s].pc = "insert"
    /\ LET r == fileReq[s] IN
       \E ok \in BOOLEAN :
          IF ok
          THEN /\ files' = files \cup {[id |-> fileSeq + 1, uploader |-> r.uploader,
                                        object |-> r.object]}
               /\ fileSeq' = fileSeq + 1
               /\ fileReq' = [fileReq EXCEPT ![s].pc = "done", ![s].status = 200,
                                             ![s].id = fileSeq + 1]
          ELSE /\ fileReq' = [fileReq EXCEPT ![s].pc = "done", ![s].status = 500]
               /\ UNCHANGED <<files, fileSeq>>
    /\ UNCHANGED <<disk, uploadSeq, fileCalls, fileDeletes>>
    /\ UNCHANGED restOfFiles

\* DELETE /files/:id?user=: user is req.query.user || "", the file is read first
FileDeleteCall(s) ==
    /\ FreeSlot(fileReq, s)
    /\ fileCalls < MaxFileCalls
    /\ \E id \in FileIds, user \in {"ana", "bob", "admin", NoName} :
          fileReq' = [fileReq EXCEPT ![s] =
                         [IdleFile EXCEPT !.route = "DELETE /files", !.pc = "get", !.id = id,
                                          !.user = user]]
    /\ fileCalls' = fileCalls + 1
    /\ UNCHANGED <<files, fileSeq, disk, uploadSeq, fileDeletes>>
    /\ UNCHANGED restOfFiles

\* the db.get completes: 500, 404 without a row, 403 for a user who is not
\* the uploader nor "admin", else the DELETE is queued
FileDeleteGet(s) ==
    /\ fileReq[s].pc = "get"
    /\ LET r == fileReq[s]
           rows == {f \in files : f.id = r.id}
       IN  \E ok \in BOOLEAN :
             fileReq' = [fileReq EXCEPT ![s] =
                  IF ~ok THEN [r EXCEPT !.pc = "done", !.status = 500]
                  ELSE IF rows = {} THEN [r EXCEPT !.pc = "done", !.status = 404]
                  ELSE LET row == CHOOSE f \in rows : TRUE IN
                       IF ~fileMayDelete(row.uploader, r.user)
                       THEN [r EXCEPT !.pc = "done", !.status = 403, !.found = TRUE,
                                      !.uploader = row.uploader, !.object = row.object]
                       ELSE [r EXCEPT !.pc = "delete", !.found = TRUE,
                                      !.uploader = row.uploader, !.object = row.object]]
    /\ UNCHANGED <<files, fileSeq, disk, uploadSeq, fileCalls, fileDeletes>>
    /\ UNCHANGED restOfFiles

\* the DELETE completes: 500, or the stored object is unlinked if it exists
\* (the unlink may fail, its error is ignored) and {success: true} is sent
FileDeleteRun(s) ==
    /\ fileReq[s].pc = "delete"
    /\ LET r == fileReq[s] IN
       \E ok \in BOOLEAN, unlinked \in BOOLEAN :
          IF ok
          THEN /\ files' = {f \in files : f.id # r.id}
               /\ disk' = IF unlinked THEN disk \ {r.object} ELSE disk
               /\ fileDeletes' = fileDeletes \cup
                     {[id |-> r.id, uploader |-> r.uploader, user |-> r.user]}
               /\ fileReq' = [fileReq EXCEPT ![s].pc = "done", ![s].status = 200]
          ELSE /\ fileReq' = [fileReq EXCEPT ![s].pc = "done", ![s].status = 500]
               /\ UNCHANGED <<files, disk, fileDeletes>>
    /\ UNCHANGED <<fileSeq, uploadSeq, fileCalls>>
    /\ UNCHANGED restOfFiles

----------------------------------------------------------------------------
(* Reflections *)

\* the XP of one reflection
XpReward == 15

\* GET /reflections: WHERE username = ? AND isDeleted = 0
listReflections(tbl, username) == {r \in tbl : r.username = username /\ r.isDeleted = 0}

\* ORDER BY datetime(createdAt) DESC: the orders the rows may come in
descendingOrders(rows) ==
    {q \in [1..Cardinality(rows) -> rows] :
        /\ \A i, j \in 1..Cardinality(rows) : i # j => q[i] # q[j]
        /\ \A i, j \in 1..Cardinality(rows) : i < j => q[i].createdAt >= q[j].createdAt}

\* a softDelete that removes the row
reflHardDelete(tbl, id, flag) == {r \in tbl : r.id # id}

\* UPDATE reflections SET isDeleted = ? WHERE id = ?
reflSetDeleted(tbl, id, flag) ==
    {IF r.id = id THEN [r EXCEPT !.isDeleted = flag] ELSE r : r \in tbl}

IdleReflection ==
    [route |-> "none", pc |-> "idle", status |-> 0, id |-> NoId,
     body |-> [username |-> NoName, subject |-> NoName, content |-> NoName, mood |-> NoName],
     createdAt |-> 0, inserted |-> NoId, awards |-> 0, call |-> NoCall, list |-> << >>]

\* a request of the reflections routes that was answered: what it did stays
reflAnswered(r, status) ==
    [IdleReflection EXCEPT !.route = r.route, !.pc = "done", !.status = status,
                           !.inserted = r.inserted, !.awards = r.awards]

\* a handler that awards the XP before it looks at the INSERT's error
reflAwardAlways(r, ok, id) ==
    [r EXCEPT !.pc = "addXP", !.inserted = IF ok THEN id ELSE NoId, !.awards = @ + 1,
              !.call = addXPStart(r.body.username, XpReward)]

\* the callback of the INSERT: 500 on an error, else addXP(username, 15) is
\* awaited
reflAfterInsert(r, ok, id) ==
    IF ok
    THEN [r EXCEPT !.pc = "addXP", !.inserted = id, !.awards = @ + 1,
                   !.call = addXPStart(r.body.username, XpReward)]
    ELSE reflAnswered(r, 500)

\* POST /reflections: 400 unless username, subject and content are given.
\* Reflections are created at distinct instants here: equal createdAt values
\* only leave the order of GET /reflections open.
ReflectionCreateCall(s) ==
    /\ FreeSlot(reflReq, s)
    /\ reflCalls < MaxReflectionCalls
    /\ \E b \in ReflectionBodies, at \in {clock + 1} :
          IF Missing(b.username) \/ Missing(b.subject) \/ Missing(b.content)
          THEN /\ reflReq' = [reflReq EXCEPT ![s] =
                                 [IdleReflection EXCEPT !.route = "POST /reflections",
                                                        !.pc = "done", !.status = 400]]
               /\ UNCHANGED clock
          ELSE /\ reflReq' = [reflReq EXCEPT ![s] =
                                 [IdleReflection EXCEPT !.route = "POST /reflections",
                                                        !.pc = "insert", !.body = b,
                                                        !.createdAt = at]]
               /\ clock' = at
    /\ reflCalls' = reflCalls + 1
    /\ UNCHANGED <<users, reflections, reflSeq, reflOrig, reflLast>>
    /\ UNCHANGED restOfReflections

\* the INSERT INTO reflections (username, subject, content, mood || "", createdAt)
\* completes
ReflectionCreateRun(s) ==
    /\ reflReq[s].pc = "insert"
    /\ LET r == reflReq[s]
           row == [id |-> reflSeq + 1, username |-> r.body.username,
                   subject |-> r.body.subject, content |-> r.body.content,
                   mood |-> r.body.mood, createdAt |-> r.createdAt, isDeleted |-> 0]
       IN  \E ok \in BOOLEAN :
             /\ reflReq' = [reflReq EXCEPT ![s] = reflAfterInsert(r, ok, reflSeq + 1)]
             /\ IF ok
                THEN /\ reflections' = reflections \cup {row}
                     /\ reflSeq' = reflSeq + 1
                     /\ reflOrig' = reflOrig \cup {row}
                ELSE UNCHANGED <<reflections, reflSeq, reflOrig>>
    /\ UNCHANGED <<users, clock, reflCalls, reflLast>>
    /\ UNCHANGED restOfReflections

\* the db.get of the awaited addXP completes
ReflectionXpGet(s) ==
    /\ reflReq[s].pc = "addXP"
    /\ reflReq[s].call.pc = "get"
    /\ \E ok \in BOOLEAN :
          reflReq' = [reflReq EXCEPT ![s].call =
                         IF ok THEN addXPAfterGet(@, users) ELSE addXPReject(@)]
    /\ UNCHANGED <<users, clock, reflections, reflSeq, reflCalls, reflOrig, reflLast>>
    /\ UNCHANGED restOfReflections

\* the INSERT of the awaited addXP completes
ReflectionXpInsert(s) ==
    /\ reflReq[s].pc = "addXP"
    /\ reflReq[s].call.pc = "insert"
    /\ LET c == reflReq[s].call IN
       \E ok \in BOOLEAN :
          IF ok /\ addXPInsertOk(c, users)
          THEN /\ users' = [u \in DOMAIN users \cup {c.username} |->
                               IF u = c.username THEN addXPInsertRow(c) ELSE users[u]]
               /\ reflReq' = [reflReq EXCEPT ![s].call = addXPAfterInsert(c)]
          ELSE /\ reflReq' = [reflReq EXCEPT ![s].call = addXPReject(c)]
               /\ UNCHANGED users
    /\ UNCHANGED <<clock, reflections, reflSeq, reflCalls, reflOrig, reflLast>>
    /\ UNCHANGED restOfReflections

\* the UPDATE of the awaited addXP completes
ReflectionXpUpdate(s) ==
    /\ reflReq[s].pc = "addXP"
    /\ reflReq[s].call.pc = "update"
    /\ LET c == reflReq[s].call IN
       \E ok \in BOOLEAN :
          IF ok
          THEN /\ users' = [users EXCEPT ![c.username] = addXPUpdateRow(c, @)]
               /\ reflReq' = [reflReq EXCEPT ![s].call.pc = "resolved"]
          ELSE /\ reflReq' = [reflReq EXCEPT ![s].call = addXPReject(c)]
               /\ UNCHANGED users
    /\ UNCHANGED <<clock, reflections, reflSeq, reflCalls, reflOrig, reflLast>>
    /\ UNCHANGED restOfReflections

\* addXP resolved: the created reflection is sent.  When it rejected, the
\* await throws inside the callback and nothing is sent.
ReflectionRespond(s) ==
    /\ reflReq[s].pc = "addXP"
    /\ reflReq[s].call.pc = "resolved"
    /\ reflReq' = [reflReq EXCEPT ![s] = reflAnswered(@, 200)]
    /\ UNCHANGED <<users, clock, reflections, reflSeq, reflCalls, reflOrig, reflLast>>
    /\ UNCHANGED restOfReflections

\* GET /reflections: 400 without a username, else the SELECT is queued
ReflectionListCall(s) ==
    /\ FreeSlot(reflReq, s)
    /\ reflCalls < MaxReflectionCalls
    /\ \E u \in Usernames \cup {NoName} :
          reflReq' = [reflReq EXCEPT ![s] =
                         IF Missing(u)
                         THEN [IdleReflection EXCEPT !.route = "GET /reflections",
                                                     !.pc = "done", !.status = 400]
                         ELSE [IdleReflection EXCEPT !.route = "GET /reflections",
                                                     !.pc = "select", !.body.username = u]]
    /\ reflCalls' = reflCalls + 1
    /\ UNCHANGED <<users, clock, reflections, reflSeq, reflOrig, reflLast>>
    /\ UNCHANGED restOfReflections

\* the SELECT completes: 500, or the rows
ReflectionListRun(s) ==
    /\ reflReq[s].pc = "select"
    /\ \E ok \in BOOLEAN :
          IF ok
          THEN \E q \in descendingOrders(listReflections(reflections, reflReq[s].body.username)) :
                  reflReq' = [reflReq EXCEPT ![s] =
                                 [reflAnswered(@, 200) EXCEPT !.list = [i \in DOMAIN q |-> q[i].id]]]
          ELSE reflReq' = [reflReq EXCEPT ![s] = reflAnswered(@, 500)]
    /\ UNCHANGED <<users, clock, reflections, reflSeq, reflCalls, reflOrig, reflLast>>
    /\ UNCHANGED restOfReflections

\* POST /reflections/delete and POST /reflections/restore: the UPDATE is queued
ReflectionFlagCall(s) ==
    /\ FreeSlot(reflReq, s)
    /\ reflCalls < MaxReflectionCalls
    /\ \E id \in ReflectionIds, route \in {"POST /reflections/delete", "POST /reflections/restore"} :
          reflReq' = [reflReq EXCEPT ![s] =
                         [IdleReflection EXCEPT !.route = route, !.pc = "update", !.id = id]]
    /\ reflCalls' = reflCalls + 1
    /\ UNCHANGED <<users, clock, reflections, reflSeq, reflOrig, reflLast>>
    /\ UNCHANGED restOfReflections

\* the UPDATE of isDeleted completes: 500, or {success: true}
ReflectionFlagRun(s) ==
    /\ reflReq[s].pc = "update"
    /\ LET r == reflReq[s]
           flag == IF r.route = "POST /reflections/delete" THEN 1 ELSE 0
       IN  \E ok \in BOOLEAN :
             IF ok
             THEN /\ reflections' = reflSetDeleted(reflections, r.id, flag)
                  /\ reflLast' = IF \E x \in reflections : x.id = r.id
                                 THEN [reflLast EXCEPT ![r.id] =
                                          IF flag = 1 THEN "deleted" ELSE "restored"]
                                 ELSE reflLast
                  /\ reflReq' = [reflReq EXCEPT ![s] = reflAnswered(r, 200)]
             ELSE /\ reflReq' = [reflReq EXCEPT ![s] = reflAnswered(r, 500)]
                  /\ UNCHANGED <<reflections, reflLast>>
    /\ UNCHANGED <<users, clock, reflSeq, reflCalls, reflOrig>>
    /\ UNCHANGED restOfReflections

----------------------------------------------------------------------------

Init ==
    /\ users = << >>
    /\ xpReq = [s \in Slots |-> IdleXp]
    /\ xpCalls = 0
    /\ progress = {}
    /\ progRowid = 0
    /\ progReq = [s \in Slots |-> IdleProgress]
    /\ progCalls = 0
    /\ progHist = [k \in Usernames \X Subjects |-> << >>]
    /\ grades = {}
    /\ gradeSeq = 0
    /\ gradeReq = [s \in Slots |-> IdleGrade]
    /\ gradeCalls = 0
    /\ gradeDone = [a \in AnswerIds |-> NoGradeDone]
    /\ clock = 0
    /\ notes = {}
    /\ comments = {}
    /\ noteSeq = 0
    /\ commentSeq = 0
    /\ noteReq = [s \in Slots |-> IdleNote]
    /\ noteCalls = 0
    /\ noteDeleted = {}
    /\ questions = {}
    /\ answers = {}
    /\ questionSeq = 0
    /\ answerSeq = 0
    /\ questionReq = [s \in Slots |-> IdleQuestion]
    /\ questionCalls = 0
    /\ questionDeleted = {}
    /\ files = {}
    /\ fileSeq = 0
    /\ disk = {}
    /\ uploadSeq = 0
    /\ fileReq = [s \in Slots |-> IdleFile]
    /\ fileCalls = 0
    /\ fileDeletes = {}
    /\ reflections = {}
    /\ reflSeq = 0
    /\ reflReq = [s \in Slots |-> IdleReflection]
    /\ reflCalls = 0
    /\ reflOrig = {}
    /\ reflLast = [id \in ReflectionIds \cup (1..MaxReflectionCalls) |-> "none"]

XpNext ==
    \E s \in Slots :
        \/ XpAddCall(s)
        \/ XpAddGet(s)
        \/ XpAddInsert(s)
        \/ XpAddUpdate(s)
        \/ XpAddRespond(s)
        \/ XpGetCall(s)
        \/ XpGetRead(s)
        \/ XpGetCreate(s)

ProgressNext ==
    \E s \in Slots :
        \/ ProgressCall(s)
        \/ ProgressRun(s)

GradeNext ==
    \E s \in Slots :
        \/ GradeCall(s)
        \/ GradeDelete(s)
        \/ GradeInsert(s)

NoteNext ==
    \E s \in Slots :
        \/ NoteCreateCall(s)
        \/ NoteCreateRun(s)
        \/ NoteDeleteCall(s)
        \/ NoteDeleteRun(s)
        \/ NoteDeleteCascade(s)
        \/ CommentCreateCall(s)
        \/ CommentCreateRun(s)
        \/ NotesListCall(s)
        \/ NotesListSelect(s)
        \/ NotesListComments(s)

QuestionNext ==
    \E s \in Slots :
        \/ QuestionCreateCall(s)
        \/ QuestionCreateRun(s)
        \/ AnswerCreateCall(s)
        \/ AnswerCreateRun(s)
        \/ QuestionDeleteCall(s)
        \/ QuestionDeleteRun(s)
        \/ QuestionDeleteAnswers(s)
        \/ QuestionDeleteGrades(s)

FileNext ==
    \E s \in Slots :
        \/ UploadCall(s)
        \/ UploadRun(s)
        \/ FileDeleteCall(s)
        \/ FileDeleteGet(s)
        \/ FileDeleteRun(s)

ReflectionNext ==
    \E s \in Slots :
        \/ ReflectionCreateCall(s)
        \/ ReflectionCreateRun(s)
        \/ ReflectionXpGet(s)
        \/ ReflectionXpInsert(s)
        \/ ReflectionXpUpdate(s)
        \/ ReflectionRespond(s)
        \/ ReflectionListCall(s)
        \/ ReflectionListRun(s)
        \/ ReflectionFlagCall(s)
        \/ ReflectionFlagRun(s)

Next ==
    \/ XpNext
    \/ ProgressNext
    \/ GradeNext
    \/ NoteNext
    \/ QuestionNext
    \/ FileNext
    \/ ReflectionNext

Spec == Init /\ [][Next]_vars

\* the XP routes alone
SpecXP == Init /\ [][XpNext]_vars

\* POST /progress alone
SpecProgress == Init /\ [][ProgressNext]_vars

\* POST /grades alone
SpecGrades == Init /\ [][GradeNext]_vars

\* the notes and comments routes alone
SpecNotes == Init /\ [][NoteNext]_vars

\* the questions, answers and grades routes together
SpecQuestions == Init /\ [][QuestionNext \/ GradeNext]_vars

\* the files routes alone
SpecFiles == Init /\ [][FileNext]_vars

\* the reflections routes alone, with the addXP they await
SpecReflections == Init /\ [][ReflectionNext]_vars

\* every statement the database handle has queued completes, and every
\* continuation that is ready runs; no request has to arrive
ReflectionFairness ==
    \A s \in Slots :
        /\ WF_vars(ReflectionCreateRun(s))
        /\ WF_vars(ReflectionXpGet(s))
        /\ WF_vars(ReflectionXpInsert(s))
        /\ WF_vars(ReflectionXpUpdate(s))
        /\ WF_vars(ReflectionRespond(s))
        /\ WF_vars(ReflectionListRun(s))
        /\ WF_vars(ReflectionFlagRun(s))

\* the reflections routes under that scheduling
SpecReflectionsLive == SpecReflections /\ ReflectionFairness

----------------------------------------------------------------------------
(* The claims *)

PositiveAmounts == {a \in Amounts : a > 0}

\* C1: for every username, with or without a user record, and all positive
\* amounts a and b, addXP(username, a) followed by addXP(username, b) leaves
\* the same level as one addXP(username, a + b) from the same state.
AddXPTwiceSameLevelAsOnce ==
    \A u \in Usernames : \A a \in PositiveAmounts, b \in PositiveAmounts :
        addXPAlone(addXPAlone(users, u, a), u, b)[u].level
            = addXPAlone(users, u, a + b)[u].level

\* C2: the xp stored for every user is in the range 0 <= xp < 100.
StoredXpInRange ==
    \A u \in DOMAIN users : 0 <= users[u].xp /\ users[u].xp < LevelStep

\* C3: no write to a user record lowers the stored level, also when the read
\* and the write of two addXP calls interleave.
LevelNeverDrops ==
    [][\A u \in DOMAIN users : users'[u].level >= users[u].level]_vars

\* C4: the progress table holds at most one row per (user, subject), and
\* setProgress(u, s, v1) followed by setProgress(u, s, v2) leaves exactly one
\* row for (u, s), whose value is v2.
ProgressOneRowLastValue ==
    \A u \in Usernames, sb \in Subjects :
        /\ Cardinality(progressRows(progress, u, sb)) <= 1
        /\ LET h == progHist[<<u, sb>>] IN
           Len(h) > 0 =>
               /\ Cardinality(progressRows(progress, u, sb)) = 1
               /\ \A r \in progressRows(progress, u, sb) : r.value = Number(h[Len(h)])

\* C4 witness: a second setProgress for a key, with another value, has run
ProgressSetTwice ==
    \E u \in Usernames, sb \in Subjects :
        LET h == progHist[<<u, sb>>] IN
        /\ Len(h) >= 2
        /\ Number(h[1]) # Number(h[2])
        /\ \A s \in Slots : progReq[s].pc # "run"

\* C5: when gradeAnswer is called for an answerId after an earlier call for
\* it has completed, and the call succeeds, exactly one grade row exists for
\* the answerId afterwards, with the isCorrect, feedback and gradedBy of that
\* last call.
RegradeLeavesOneRow ==
    \A a \in AnswerIds :
        LET d == gradeDone[a] IN
        (/\ d.calls >= 1 /\ d.ok /\ d.alone
         /\ \A s \in Slots : ~gradeInFlight(gradeReq[s], a))
        => /\ Cardinality(gradesOf(grades, a)) = 1
           /\ \A g \in gradesOf(grades, a) :
                 /\ (g.isCorrect = 1) <=> (d.body.isCorrect = "true")
                 /\ g.feedback = d.body.feedback
                 /\ g.gradedBy = d.body.gradedBy

\* C5 witness: a second gradeAnswer for an answerId has completed, alone
RegradedTwice ==
    \E a \in AnswerIds :
        /\ gradeDone[a].calls >= 2 /\ gradeDone[a].ok /\ gradeDone[a].alone
        /\ \A s \in Slots : ~gradeInFlight(gradeReq[s], a)
        /\ gradeDone[a].body.gradedBy = JsonString("teacher2")

\* C6: once deleteNote(N) has reported success, no comment row with noteId N
\* exists in the store and no listNotes result holds a comment of N, also
\* when the deletion of the comments fails and when addComment(N, ...) runs
\* after the note was deleted.
NoCommentOfDeletedNote ==
    \A n \in noteDeleted :
        /\ commentsOf(comments, n) = {}
        /\ \A sb \in Subjects : \A e \in listNotesAlone(sb) :
              \A c \in e.comments : c.noteId # n

\* C7: once deleteQuestion(Q) has reported success, no answer row and no
\* grade row with questionId Q remains in the store.
NoAnswerOrGradeOfDeletedQuestion ==
    \A q \in questionDeleted :
        /\ answersOf(answers, q) = {}
        /\ gradesOfQuestion(grades, q) = {}

\* C8: softDelete and restore change only the isDeleted flag: no sequence of
\* them removes the row or changes its id, username, subject, content, mood
\* or createdAt; after softDelete the reflection is absent from
\* listReflections(username), and after a following restore it is listed
\* again, as it was created.
SoftDeleteOnlyHides ==
    \A o \in reflOrig :
        /\ \E r \in reflections : r.id = o.id
        /\ \A r \in reflections :
              r.id = o.id => /\ [r EXCEPT !.isDeleted = 0] = o
                             /\ r.isDeleted \in {0, 1}
        /\ reflLast[o.id] = "deleted" =>
              \A r \in listReflections(reflections, o.username) : r.id # o.id
        /\ reflLast[o.id] = "restored" => o \in listReflections(reflections, o.username)

\* C8 witness: a reflection was soft-deleted, then restored, and is listed
ReflectionRestored ==
    \E o \in reflOrig :
        /\ reflLast[o.id] = "restored"
        /\ \E s \in Slots : /\ reflReq[s].route = "POST /reflections/delete"
                             /\ reflReq[s].status = 200
        /\ o \in listReflections(reflections, o.username)

\* C9: deleteFile removes the file row, and the stored object, only for a
\* requesting user who is the file's uploader or is "admin"; for any other
\* user, an absent one included, a delete that finds the file answers 403.
FileDeleteOnlyByOwnerOrAdmin ==
    /\ \A d \in fileDeletes : d.user = d.uploader \/ d.user = "admin"
    /\ \A s \in Slots :
          LET r == fileReq[s] IN
          (r.route = "DELETE /files" /\ r.found /\ r.user # r.uploader /\ r.user # "admin")
          => /\ r.pc = "done"
             /\ r.status = 403

\* C9 witness: a user who is neither the uploader nor "admin" got 403 for a
\* file that is still there, and so did a request without a user
FileDeleteRefused ==
    \E s \in Slots, f \in files :
        /\ fileReq[s].route = "DELETE /files"
        /\ fileReq[s].id = f.id
        /\ fileReq[s].found
        /\ fileReq[s].user \notin {f.uploader, "admin"}
        /\ fileReq[s].status = 403
        /\ f.object \in disk

\* C10: a createReflection that inserts its row invokes addXP(username, 15)
\* exactly once, one that fails validation or whose insert fails invokes it
\* never, and the inserted row stays in the store when that addXP fails.
ReflectionAwardsXpOnce ==
    \A s \in Slots :
        LET r == reflReq[s] IN
        r.route = "POST /reflections" =>
            /\ r.inserted # NoId => r.awards = 1
            /\ r.pc = "addXP" => /\ r.inserted # NoId
                                 /\ r.call.username = r.body.username
                                 /\ r.call.amount = 15
            /\ (r.inserted = NoId \/ r.status = 400) => r.awards = 0
            /\ (r.pc = "done" /\ r.status = 500) => r.awards = 0
            /\ r.call.pc = "rejected" => \E x \in reflections : x.id = r.inserted

\* C10 witness: the addXP of an inserted reflection failed; another request
\* failed at its INSERT
ReflectionKeptWhenXpFails ==
    \E s \in Slots, t \in Slots :
        /\ reflReq[s].route = "POST /reflections"
        /\ reflReq[s].call.pc = "rejected"
        /\ reflReq[s].awards = 1
        /\ \E x \in reflections : x.id = reflReq[s].inserted
        /\ reflReq[t].route = "POST /reflections"
        /\ reflReq[t].status = 500

\* C11: every request whose required input is missing is rejected with
\* status 400 and leaves the store unchanged; for POST /xp/add (required:
\* username and amount): a request without a username is answered 400 once
\* it is answered, and no users row is ever written for it.
XpAddMissingInputRejected ==
    /\ \A s \in Slots :
          (/\ xpReq[s].route = "xp/add"
           /\ xpReq[s].call.username = NoName
           /\ xpReq[s].pc = "done")
          => xpReq[s].status = 400
    /\ NoName \notin DOMAIN users

\* C12: gradeAnswer accepts every request in which gradedBy is present and
\* non-null, the falsy value 0 included, and inserts the grade: a request
\* whose answerId, questionId and isCorrect are given and whose gradedBy is
\* not null or absent is never answered 400.
GradedByZeroAccepted ==
    \A s \in Slots :
        LET r == gradeReq[s] IN
        (/\ r.pc = "done"
         /\ r.answerId # NoId
         /\ r.body.questionId # NoId
         /\ r.body.isCorrect # "absent"
         /\ ~IsNullish(r.body.gradedBy))
        => r.status # 400

\* C13: every comment row, at the moment addComment creates it, has a noteId
\* that refers to a note existing in the store at that moment.
CommentCreatedForExistingNote ==
    [][\A c \in comments' \ comments : \E n \in notes : n.id = c.noteId]_vars

\* C14: in every reachable state, also when the DELETE and the INSERT of two
\* gradeAnswer calls for the same answerId interleave, the grades table
\* holds at most one row per answerId.
AtMostOneGradePerAnswer ==
    \A a \in AnswerIds : Cardinality(gradesOf(grades, a)) <= 1

\* C15: no operation blocks indefinitely: every accepted request eventually
\* receives its response, also when a store step inside the handler fails;
\* for the reflections routes: every request in flight is eventually
\* answered, POST /reflections included when its addXP fails.
ReflectionRequestAnswered ==
    \A s \in Slots :
        (reflReq[s].pc \notin {"idle", "done"}) ~> (reflReq[s].pc = "done")

\* C16: for every GET /notes request with a subject, whatever order the
\* per-note comment queries complete in, the handler sends exactly one
\* response, sends it only after all of the comment queries have completed,
\* and the response has exactly one entry per note row of the subject, each
\* carrying the comments of that note, in descending createdAt order.
NotesListedOnceWithComments ==
    \A s \in Slots :
        LET r == noteReq[s] IN
        (r.route = "GET /notes" /\ ~Missing(r.subject)) =>
            /\ r.sent <= 1
            /\ r.pc = "done" => r.sent = 1
            /\ r.sent = 1 => r.waiting = {}
            /\ (r.pc = "done" /\ r.status = 200) =>
                  /\ Len(r.out) = Cardinality(r.rows)
                  /\ {r.out[i].id : i \in 1..Len(r.out)} = {n.id : n \in r.rows}
                  /\ \A i \in 1..Len(r.out) : r.out[i].comments = r.out[i].stored
                  /\ \A i, j \in 1..Len(r.out) :
                        i < j => r.out[i].createdAt >= r.out[j].createdAt

====
